---- MODULE Spec2Model ----
(***************************************************************************)
(* Model of the unidirs crate: the three directory layouts (LocalDirs,     *)
(* ServiceDirs, UserDirs), the UnifiedDirs enum that wraps them, and the   *)
(* SimpleBuilder that detects the service mode and selects a layout.       *)
(*                                                                         *)
(* Strings and paths are sequences of one-character strings, so that       *)
(* format!() is concatenation and Path::join is the separator logic of     *)
(* PathBuf::push.  Option<T> is a sequence of length at most one: None is  *)
(* <<>> and Some(x) is <<x>>.  What the platform answers (working          *)
(* directory, home directory, environment, arguments, user name) is drawn  *)
(* at the call that reads it.                                              *)
(***************************************************************************)
EXTENDS Integers, Sequences, FiniteSets, TLC

VARIABLES
    target,     \* cfg(unix) / cfg(windows) of the compiled artifact
    debug,      \* cfg!(debug_assertions) of the compiled artifact
    pc,         \* "idle" | "chain" | "returned" | "read"
    builder,    \* Option<SimpleBuilder>
    trace,      \* one entry per with/with_* call of the current chain
    call,       \* the last constructor / terminal call and what it read
    ret,        \* what that call returned
    seen        \* the three accessors read from the returned value

vars == <<target, debug, pc, builder, trace, call, ret, seen>>

---------------------------------------------------------------------------
(* Bounds *)

MaxLen == 3         \* longest base path / identity string that is enumerated
MaxChain == 3       \* longest chain of with/with_* calls

---------------------------------------------------------------------------
(* Option *)

None == <<>>
Some(x) == <<x>>

---------------------------------------------------------------------------
(* String literals of the source *)

STR_cache == <<"c", "a", "c", "h", "e">>
STR_config == <<"c", "o", "n", "f", "i", "g">>
STR_data == <<"d", "a", "t", "a">>
STR_dot_local == <<".", "l", "o", "c", "a", "l">>
STR_var_cache == <<"/", "v", "a", "r", "/", "c", "a", "c", "h", "e", "/">>
STR_etc == <<"/", "e", "t", "c", "/">>
STR_var_lib == <<"/", "v", "a", "r", "/", "l", "i", "b", "/">>
STR_app_data ==
    <<"C", ":", "\\", "W", "i", "n", "d", "o", "w", "s", "\\",
      "S", "e", "r", "v", "i", "c", "e", "P", "r", "o", "f", "i", "l", "e", "s", "\\",
      "N", "e", "t", "w", "o", "r", "k", "S", "e", "r", "v", "i", "c", "e", "\\",
      "A", "p", "p", "D", "a", "t", "a">>
STR_Local == <<"L", "o", "c", "a", "l">>
STR_Roaming == <<"R", "o", "a", "m", "i", "n", "g">>
BSLASH == <<"\\">>
SLASH == <<"/">>

\* A byte sequence that is not valid UTF-8, as one element of an OS path.
BadByte == "\\xFF"

---------------------------------------------------------------------------
(* std::path: separators and PathBuf::push for the compiled target *)

MainSeparator(t) == IF t = "windows" THEN "\\" ELSE "/"

IsSep(t, c) == IF t = "windows" THEN c \in {"/", "\\"} ELSE c = "/"

HasRoot(t, p) == Len(p) > 0 /\ IsSep(t, p[1])

\* Join without the separator logic.
JoinConcat(t, base, rel) == base \o rel

\* Utf8Path::join(base, rel) = PathBuf::push on a copy of base: a rooted rel
\* replaces base, otherwise a separator is added unless base is empty or
\* already ends in one.  The crate only ever joins the relative literals
\* ".local", "cache", "config" and "data".  The Windows special cases of push
\* (a base that is only a drive prefix "C:", a verbatim prefix "\\?\") need
\* the characters ":" and "?", which PathChars does not hold.
Join(t, base, rel) ==
    IF HasRoot(t, rel) THEN rel
    ELSE IF Len(base) > 0 /\ ~IsSep(t, base[Len(base)])
         THEN base \o <<MainSeparator(t)>> \o rel
         ELSE base \o rel

\* Utf8PathBuf::from_path_buf / <&Utf8Path>::try_from: fails on non-UTF-8.
FromPathBuf(p) ==
    IF \E i \in 1..Len(p) : p[i] = BadByte THEN None ELSE Some(p)

---------------------------------------------------------------------------
(* LocalDirs *)

LocalDirsNewAt(t, base) ==
    [cache_dir  |-> Join(t, base, STR_cache),
     config_dir |-> Join(t, base, STR_config),
     data_dir   |-> Join(t, base, STR_data)]

\* LocalDirs::new with a lossy conversion in place of from_path_buf(..).ok()?.
LocalDirsNewLossy(t, cwd) ==
    IF cwd = <<>> THEN None
    ELSE Some(LocalDirsNewAt(t, Join(t, cwd[1], STR_dot_local)))

\* cwd is the io::Result of env::current_dir(): <<>> for Err, <<path>> for Ok.
LocalDirsNew(t, cwd) ==
    IF cwd = <<>> THEN None
    ELSE LET u == FromPathBuf(cwd[1]) IN
         IF u = None THEN None
         ELSE Some(LocalDirsNewAt(t, Join(t, u[1], STR_dot_local)))

---------------------------------------------------------------------------
(* ServiceDirs *)

\* ServiceDirs::new with the organization as a path segment on Unix too.
ServiceDirsNewWithOrg(t, organization, application) ==
    [cache_dir  |-> STR_var_cache \o organization \o SLASH \o application,
     config_dir |-> STR_etc \o organization \o SLASH \o application,
     data_dir   |-> STR_var_lib \o organization \o SLASH \o application]

ServiceDirsNew(t, organization, application) ==
    IF t = "unix"
    THEN [cache_dir  |-> STR_var_cache \o application,
          config_dir |-> STR_etc \o application,
          data_dir   |-> STR_var_lib \o application]
    ELSE LET app_data == STR_app_data
             project_dir == organization \o SLASH \o application
         IN [cache_dir  |-> app_data \o BSLASH \o STR_Local \o BSLASH
                                \o project_dir \o BSLASH \o STR_cache,
             config_dir |-> app_data \o BSLASH \o STR_Roaming \o BSLASH
                                \o project_dir \o BSLASH \o STR_config,
             data_dir   |-> app_data \o BSLASH \o STR_Roaming \o BSLASH
                                \o project_dir \o BSLASH \o STR_data]


---------------------------------------------------------------------------
(* UserDirs *)

STR_dot_cache == <<".", "c", "a", "c", "h", "e">>
STR_dot_config == <<".", "c", "o", "n", "f", "i", "g">>
STR_dot_local_share == <<".", "l", "o", "c", "a", "l", "/", "s", "h", "a", "r", "e">>

\* directories::ProjectDirs::from, by the tables of the UserDirs type doc
\* (Linux row for unix, Windows row for windows).  home is what the platform
\* answers for the user's home / AppData folder: <<>> when it has none.
ProjectDirsFrom(t, home, qualifier, organization, application) ==
    IF home = <<>> THEN None
    ELSE IF t = "unix"
    THEN Some([cache_dir  |-> home[1] \o SLASH \o STR_dot_cache \o SLASH \o application,
               config_dir |-> home[1] \o SLASH \o STR_dot_config \o SLASH \o application,
               data_dir   |-> home[1] \o SLASH \o STR_dot_local_share \o SLASH
                                  \o application])
    ELSE Some([cache_dir  |-> home[1] \o BSLASH \o STR_Local \o BSLASH \o organization
                                  \o BSLASH \o application \o BSLASH \o STR_cache,
               config_dir |-> home[1] \o BSLASH \o STR_Roaming \o BSLASH \o organization
                                  \o BSLASH \o application \o BSLASH \o STR_config,
               data_dir   |-> home[1] \o BSLASH \o STR_Roaming \o BSLASH \o organization
                                  \o BSLASH \o application \o BSLASH \o STR_data])

\* Result<UserDirs, FromPathError> as an Option: the three `?` in order.
UserDirsFromProjectDirs(value) ==
    LET cache == FromPathBuf(value.cache_dir)
        config == FromPathBuf(value.config_dir)
        data == FromPathBuf(value.data_dir)
    IN IF cache = None THEN None
       ELSE IF config = None THEN None
       ELSE IF data = None THEN None
       ELSE Some([cache_dir |-> cache[1], config_dir |-> config[1], data_dir |-> data[1]])

UserDirsNew(t, home, qualifier, organization, application) ==
    LET dirs == ProjectDirsFrom(t, home, qualifier, organization, application) IN
    IF dirs = None THEN None ELSE UserDirsFromProjectDirs(dirs[1])

---------------------------------------------------------------------------
(* impl Directories for LocalDirs / ServiceDirs / UserDirs *)

LocalCacheDir(d) == d.cache_dir
LocalConfigDir(d) == d.config_dir
LocalDataDir(d) == d.data_dir

ServiceCacheDir(d) == d.cache_dir
ServiceConfigDir(d) == d.config_dir
ServiceDataDir(d) == d.data_dir

UserCacheDir(d) == d.cache_dir
UserConfigDir(d) == d.config_dir
UserDataDir(d) == d.data_dir

---------------------------------------------------------------------------
(* UnifiedDirs *)

UnifiedLocal(t, cwd) ==
    LET r == LocalDirsNew(t, cwd) IN
    IF r = None THEN None ELSE Some([tag |-> "Local", dirs |-> r[1]])

UnifiedLocalAt(t, base) == [tag |-> "Local", dirs |-> LocalDirsNewAt(t, base)]

UnifiedService(t, organization, application) ==
    [tag |-> "Service", dirs |-> ServiceDirsNew(t, organization, application)]

\* user() substituting the Service layout when UserDirs::new fails.
UnifiedUserOrService(t, home, qualifier, organization, application) ==
    LET r == UserDirsNew(t, home, qualifier, organization, application) IN
    IF r = None THEN Some(UnifiedService(t, organization, application))
    ELSE Some([tag |-> "User", dirs |-> r[1]])

UnifiedUser(t, home, qualifier, organization, application) ==
    LET r == UserDirsNew(t, home, qualifier, organization, application) IN
    IF r = None THEN None ELSE Some([tag |-> "User", dirs |-> r[1]])

\* cache_dir() dispatching to the wrong accessor.
UnifiedCacheDirSwapped(u) ==
    CASE u.tag = "Local" -> LocalConfigDir(u.dirs)
      [] u.tag = "Service" -> ServiceConfigDir(u.dirs)
      [] u.tag = "User" -> UserConfigDir(u.dirs)

UnifiedCacheDir(u) ==
    CASE u.tag = "Local" -> LocalCacheDir(u.dirs)
      [] u.tag = "Service" -> ServiceCacheDir(u.dirs)
      [] u.tag = "User" -> UserCacheDir(u.dirs)

UnifiedConfigDir(u) ==
    CASE u.tag = "Local" -> LocalConfigDir(u.dirs)
      [] u.tag = "Service" -> ServiceConfigDir(u.dirs)
      [] u.tag = "User" -> UserConfigDir(u.dirs)

UnifiedDataDir(u) ==
    CASE u.tag = "Local" -> LocalDataDir(u.dirs)
      [] u.tag = "Service" -> ServiceDataDir(u.dirs)
      [] u.tag = "User" -> UserDataDir(u.dirs)

---------------------------------------------------------------------------
(* SimpleBuilder *)

SimpleBuilderNew(qualifier, organization, application) ==
    [service      |-> FALSE,
     qualifier    |-> qualifier,
     organization |-> organization,
     application  |-> application]

\* What a predicate reads from the platform when it runs.
NoRead == [env |-> <<>>, args |-> <<>>, username |-> <<>>]

\* One entry of the log of a chain.
Entry(f, invoked) ==
    [kind     |-> f.kind,
     calls    |-> IF invoked THEN 1 ELSE 0,
     result   |-> invoked /\ f.value,
     env      |-> IF invoked THEN f.read.env ELSE <<>>,
     args     |-> IF invoked THEN f.read.args ELSE <<>>,
     username |-> IF invoked THEN f.read.username ELSE <<>>]

\* with() evaluating the predicate before looking at the flag.
WithEager(st, f) ==
    [builder |-> [st.builder EXCEPT !.service = f.value \/ st.builder.service],
     trace   |-> Append(st.trace, Entry(f, TRUE))]

\* with() assigning the result of the predicate to the flag.
WithOverwrite(st, f) ==
    [builder |-> [st.builder EXCEPT !.service = f.value],
     trace   |-> Append(st.trace, Entry(f, TRUE))]

\* with() storing the predicate for build() instead of evaluating it.
WithDeferred(st, f) ==
    [builder |-> st.builder,
     trace   |-> Append(st.trace, Entry(f, FALSE))]

\* A chain in progress: the builder and the log of its with/with_* calls.
\* A predicate f is [kind, value, read]: the value the closure returns when it
\* is invoked, and what it reads from the platform when invoked.
\* `self.service || f(&self)` invokes f only when self.service is false.
With(st, f) ==
    LET self == st.builder
        invoked == ~self.service
    IN [builder |-> [service      |-> self.service \/ f.value,
                     qualifier    |-> self.qualifier,
                     organization |-> self.organization,
                     application  |-> self.application],
        trace   |-> Append(st.trace, Entry(f, invoked))]

\* with_env() looking for the name as the doc comment spells it, and asking
\* for a value that is not empty.
WithEnvDocName(st, env) ==
    With(st, [kind  |-> "env",
              value |-> \E name \in DOMAIN env :
                            /\ name = "SERVCIE" \/ name = "DAEMON"
                            /\ env[name] # "",
              read  |-> [NoRead EXCEPT !.env = <<env>>]])

\* env is the snapshot env::vars_os() yields: a function from names to values.
WithEnv(st, env) ==
    With(st, [kind  |-> "env",
              value |-> \E name \in DOMAIN env : name = "SERVICE" \/ name = "DAEMON",
              read  |-> [NoRead EXCEPT !.env = <<env>>]])

\* args is the set of tokens env::args_os() yields.
WithArgs(st, args) ==
    With(st, [kind  |-> "args",
              value |-> \E name \in args : name = "--service" \/ name = "--daemon",
              read  |-> [NoRead EXCEPT !.args = <<args>>]])

\* username is what whoami::username_os() answers.
WithUsername(st, username) ==
    With(st, [kind  |-> "username",
              value |-> username = st.builder.application,
              read  |-> [NoRead EXCEPT !.username = <<username>>]])

\* A caller's closure that returns v.
WithClosure(st, v) ==
    With(st, [kind |-> "closure", value |-> v, read |-> NoRead])

\* build() letting the service flag win over the debug configuration.
BuildIgnoringDebug(t, dbg, self, cwd, home) ==
    IF self.service
    THEN Some(UnifiedService(t, self.organization, self.application))
    ELSE IF dbg THEN UnifiedLocal(t, cwd)
    ELSE UnifiedUser(t, home, self.qualifier, self.organization, self.application)

\* build() falling back to the Local layout when the User layout fails.
BuildWithFallback(t, dbg, self, cwd, home) ==
    IF dbg THEN UnifiedLocal(t, cwd)
    ELSE IF self.service
    THEN Some(UnifiedService(t, self.organization, self.application))
    ELSE LET u == UnifiedUser(t, home, self.qualifier, self.organization,
                              self.application)
         IN IF u = None THEN UnifiedLocal(t, cwd) ELSE u

\* Option<UnifiedDirs>; cwd and home are what the platform answers if asked.
Build(t, dbg, self, cwd, home) ==
    IF dbg THEN UnifiedLocal(t, cwd)
    ELSE IF self.service
    THEN Some(UnifiedService(t, self.organization, self.application))
    ELSE UnifiedUser(t, home, self.qualifier, self.organization, self.application)

\* What build() asked the platform, for the record of the call.
BuildReads(dbg, self, cwd, home) ==
    [cwd  |-> IF dbg THEN <<cwd>> ELSE <<>>,
     home |-> IF ~dbg /\ ~self.service THEN <<home>> ELSE <<>>]

\* default() checking the arguments before the environment.
DefaultArgsFirst(t, dbg, st, env, args, username, cwd, home) ==
    LET c == WithUsername(WithEnv(WithArgs(st, args), env), username)
    IN [trace |-> c.trace,
        self  |-> c.builder,
        ret   |-> Build(t, dbg, c.builder, cwd, home),
        reads |-> BuildReads(dbg, c.builder, cwd, home)]

\* self.with_env().with_args().with_username().build()
Default(t, dbg, st, env, args, username, cwd, home) ==
    LET c == WithUsername(WithArgs(WithEnv(st, env), args), username)
    IN [trace |-> c.trace,
        self  |-> c.builder,
        ret   |-> Build(t, dbg, c.builder, cwd, home),
        reads |-> BuildReads(dbg, c.builder, cwd, home)]

---------------------------------------------------------------------------
(* Inputs *)

Strs(S, n) == UNION {[1..k -> S] : k \in 0..n}

PathChars == {"/", "\\", ".", "a"}
BasePaths == Strs(PathChars, MaxLen)

IdentChars == {"a", "/", " "}
Idents == Strs(IdentChars, MaxLen - 1)

\* Results of env::current_dir(): Err, or Ok of an OS path.
CurrentDirs ==
    {<<>>, <<SLASH>>, << <<"/", "w">> >>, << <<"/", BadByte>> >>}

\* The platform's home folder: absent, or an OS path.
Homes == {<<>>, << <<"/", "h">> >>, << <<"/", BadByte>> >>}

EnvNames == {"SERVICE", "DAEMON", "SERVCIE"}
EnvValues == {"", "1"}
Envs == UNION {[D -> EnvValues] : D \in SUBSET EnvNames}

ArgTokens == {"--service", "--daemon", "-service"}
Argvs == SUBSET ArgTokens

Usernames == {<<"a">>, <<"A">>}

Qualifiers == {<<"c">>}
Organizations == {<<"o">>}
Applications == {<<"a">>, <<>>}

---------------------------------------------------------------------------
(* State machine *)

Init ==
    /\ target \in {"unix", "windows"}
    /\ debug \in BOOLEAN
    /\ pc = "idle"
    /\ builder = None
    /\ trace = <<>>
    /\ call = [op |-> "none"]
    /\ ret = None
    /\ seen = None

Returns(c, r) ==
    /\ pc' = "returned"
    /\ call' = c
    /\ ret' = r
    /\ UNCHANGED <<target, debug, builder, trace, seen>>

CallLocalDirsNew ==
    /\ pc = "idle"
    /\ \E cwd \in CurrentDirs :
            Returns([op |-> "LocalDirs::new", type |-> "LocalDirs", cwd |-> cwd],
                LocalDirsNew(target, cwd))

CallLocalDirsNewAt ==
    /\ pc = "idle"
    /\ \E base \in BasePaths :
            Returns([op |-> "LocalDirs::new_at", type |-> "LocalDirs", base |-> base],
                Some(LocalDirsNewAt(target, base)))

CallServiceDirsNew ==
    /\ pc = "idle"
    /\ \E o \in Idents, a \in Idents :
            Returns([op |-> "ServiceDirs::new", type |-> "ServiceDirs",
                 organization |-> o, application |-> a],
                Some(ServiceDirsNew(target, o, a)))

CallUserDirsNew ==
    /\ pc = "idle"
    /\ \E home \in Homes, q \in Qualifiers, o \in Organizations, a \in Idents :
            Returns([op |-> "UserDirs::new", type |-> "UserDirs", home |-> home,
                 qualifier |-> q, organization |-> o, application |-> a],
                UserDirsNew(target, home, q, o, a))

CallUnifiedLocal ==
    /\ pc = "idle"
    /\ \E cwd \in CurrentDirs :
            Returns([op |-> "UnifiedDirs::local", type |-> "UnifiedDirs", cwd |-> cwd],
                UnifiedLocal(target, cwd))

CallUnifiedLocalAt ==
    /\ pc = "idle"
    /\ \E base \in BasePaths :
            Returns([op |-> "UnifiedDirs::local_at", type |-> "UnifiedDirs", base |-> base],
                Some(UnifiedLocalAt(target, base)))

CallUnifiedService ==
    /\ pc = "idle"
    /\ \E o \in Idents, a \in Idents :
            Returns([op |-> "UnifiedDirs::service", type |-> "UnifiedDirs",
                 organization |-> o, application |-> a],
                Some(UnifiedService(target, o, a)))

CallUnifiedUser ==
    /\ pc = "idle"
    /\ \E home \in Homes, q \in Qualifiers, o \in Organizations, a \in Idents :
            Returns([op |-> "UnifiedDirs::user", type |-> "UnifiedDirs", home |-> home,
                 qualifier |-> q, organization |-> o, application |-> a],
                UnifiedUser(target, home, q, o, a))

\* Read cache_dir(), config_dir() and data_dir() of the returned value.
ReadDirs ==
    /\ pc = "returned"
    /\ ret # None
    /\ seen' =
        Some(CASE call.type = "LocalDirs" ->
                    [cache_dir  |-> LocalCacheDir(ret[1]),
                     config_dir |-> LocalConfigDir(ret[1]),
                     data_dir   |-> LocalDataDir(ret[1])]
               [] call.type = "ServiceDirs" ->
                    [cache_dir  |-> ServiceCacheDir(ret[1]),
                     config_dir |-> ServiceConfigDir(ret[1]),
                     data_dir   |-> ServiceDataDir(ret[1])]
               [] call.type = "UserDirs" ->
                    [cache_dir  |-> UserCacheDir(ret[1]),
                     config_dir |-> UserConfigDir(ret[1]),
                     data_dir   |-> UserDataDir(ret[1])]
               [] call.type = "UnifiedDirs" ->
                    [cache_dir  |-> UnifiedCacheDir(ret[1]),
                     config_dir |-> UnifiedConfigDir(ret[1]),
                     data_dir   |-> UnifiedDataDir(ret[1])])
    /\ pc' = "read"
    /\ UNCHANGED <<target, debug, builder, trace, call, ret>>

CallSimple ==
    /\ pc = "idle"
    /\ \E q \in Qualifiers, o \in Organizations, a \in Applications :
          builder' = Some(SimpleBuilderNew(q, o, a))
    /\ trace' = <<>>
    /\ pc' = "chain"
    /\ call' = [op |-> "UnifiedDirs::simple"]
    /\ UNCHANGED <<target, debug, ret, seen>>

Chain == [builder |-> builder[1], trace |-> trace]

Chained(st, op) ==
    /\ builder' = Some(st.builder)
    /\ trace' = st.trace
    /\ call' = [op |-> op]
    /\ UNCHANGED <<target, debug, pc, ret, seen>>

CallWith ==
    /\ pc = "chain" /\ Len(trace) < MaxChain
    /\ \E v \in BOOLEAN : Chained(WithClosure(Chain, v), "with")

CallWithEnv ==
    /\ pc = "chain" /\ Len(trace) < MaxChain
    /\ \E env \in Envs : Chained(WithEnv(Chain, env), "with_env")

CallWithArgs ==
    /\ pc = "chain" /\ Len(trace) < MaxChain
    /\ \E args \in Argvs : Chained(WithArgs(Chain, args), "with_args")

CallWithUsername ==
    /\ pc = "chain" /\ Len(trace) < MaxChain
    /\ \E username \in Usernames :
          Chained(WithUsername(Chain, username), "with_username")

\* build() consumes the builder.
CallBuild ==
    /\ pc = "chain"
    /\ \E cwd \in CurrentDirs, home \in Homes :
          /\ ret' = Build(target, debug, builder[1], cwd, home)
          /\ call' = [op |-> "build", type |-> "UnifiedDirs", self |-> builder[1],
                      reads |-> BuildReads(debug, builder[1], cwd, home)]
    /\ builder' = None
    /\ pc' = "returned"
    /\ UNCHANGED <<target, debug, trace, seen>>

\* default(): the three checks and build() in one call.
CallDefault ==
    /\ pc = "chain" /\ Len(trace) + 3 <= MaxChain
    /\ \E env \in Envs, args \in Argvs, username \in Usernames,
          cwd \in CurrentDirs, home \in Homes :
          LET d == Default(target, debug, Chain, env, args, username, cwd, home) IN
          /\ trace' = d.trace
          /\ ret' = d.ret
          /\ call' = [op |-> "default", type |-> "UnifiedDirs", self |-> d.self,
                      reads |-> d.reads]
    /\ builder' = None
    /\ pc' = "returned"
    /\ UNCHANGED <<target, debug, seen>>

Next ==
    \/ CallLocalDirsNew
    \/ CallLocalDirsNewAt
    \/ CallServiceDirsNew
    \/ CallUserDirsNew
    \/ CallUnifiedLocal
    \/ CallUnifiedLocalAt
    \/ CallUnifiedService
    \/ CallUnifiedUser
    \/ ReadDirs
    \/ CallSimple
    \/ CallWith
    \/ CallWithEnv
    \/ CallWithArgs
    \/ CallWithUsername
    \/ CallBuild
    \/ CallDefault

Spec == Init /\ [][Next]_vars

TypeOK ==
    /\ target \in {"unix", "windows"}
    /\ debug \in BOOLEAN
    /\ pc \in {"idle", "chain", "returned", "read"}
    /\ Len(builder) <= 1 /\ Len(ret) <= 1 /\ Len(seen) <= 1
    /\ Len(trace) <= MaxChain

---------------------------------------------------------------------------
(* Properties *)

Returned == pc \in {"returned", "read"}

\* A terminal call of the builder: build(), or default() which ends in it.
Built == Returned /\ call.op \in {"build", "default"}

Kinds == [i \in 1..Len(trace) |-> trace[i].kind]

\* The path p split at the separators of the target, empty pieces dropped.
RECURSIVE SegmentsFrom(_, _, _, _, _)
SegmentsFrom(t, p, i, cur, acc) ==
    IF i > Len(p)
    THEN IF cur = <<>> THEN acc ELSE Append(acc, cur)
    ELSE IF IsSep(t, p[i])
    THEN SegmentsFrom(t, p, i + 1, <<>>, IF cur = <<>> THEN acc ELSE Append(acc, cur))
    ELSE SegmentsFrom(t, p, i + 1, Append(cur, p[i]), acc)

Segments(t, p) == SegmentsFrom(t, p, 1, <<>>, <<>>)

StartsWith(p, prefix) ==
    Len(prefix) <= Len(p) /\ SubSeq(p, 1, Len(prefix)) = prefix

\* p is the path base/name[1]/../name[n]: it extends the text of base by
\* exactly the segments of names, and is rooted exactly when base is.
IsUnder(t, base, p, names) ==
    /\ StartsWith(p, base)
    /\ Segments(t, p) = Segments(t, base) \o names
    /\ HasRoot(t, p) <=> HasRoot(t, base)

IsUtf8(p) == \A i \in 1..Len(p) : p[i] # BadByte

\* C1: once a call of the chain has produced a positive signal, the predicate
\* of every later call of the chain is never invoked.
C1_ShortCircuit ==
    \A i \in 1..Len(trace), j \in 1..Len(trace) :
        (i < j /\ trace[i].result) => trace[j].calls = 0

C1_Witness ==
    /\ Len(trace) >= 2
    /\ trace[1].kind = "env" /\ trace[1].result
    /\ trace[2].kind = "closure" /\ trace[2].calls = 0

\* C2: a predicate is invoked exactly once, during its own with/with_* call,
\* whenever no earlier call of the chain detected the service mode: every step
\* keeps the entries already logged, logs one invocation for each new call
\* that no detection precedes, and build() invokes nothing.
C2_Step ==
    /\ \A i \in 1..Len(trace) : i <= Len(trace') /\ trace'[i] = trace[i]
    /\ \A j \in (Len(trace) + 1)..Len(trace') :
          (\A i \in 1..(j - 1) : ~trace'[i].result) => trace'[j].calls = 1
    /\ (pc = "chain" /\ call'.op = "build") => trace' = trace

C2_EvaluatedAtCall == [][C2_Step]_vars

\* The second doctest of `with`: the closure runs although a later with_env
\* detects the service mode as well.
C2_Witness ==
    /\ Len(trace) >= 2
    /\ trace[1].kind = "closure" /\ trace[1].calls = 1 /\ ~trace[1].result
    /\ trace[2].kind = "env" /\ trace[2].result

\* C3: in a debug build, build() yields a Local-backed value whenever the
\* working directory is readable and UTF-8, whatever the flag and the identity,
\* and no value at all otherwise.
C3_DebugBuildIsLocal ==
    (Built /\ debug) =>
        LET cwd == call.reads.cwd[1] IN
        IF cwd # <<>> /\ IsUtf8(cwd[1])
        THEN ret # None /\ ret[1].tag = "Local"
        ELSE ret = None

C3_Witness ==
    /\ Built /\ debug /\ call.op = "build"
    /\ call.self.service
    /\ ret # None /\ ret[1].tag = "Local"

\* C4: in a non-debug build, build() yields a Service-backed value (never
\* absent) when the flag is true; when it is false it yields a User-backed
\* value, or nothing if the user directories cannot be resolved.
C4_ReleaseBuild ==
    (Built /\ ~debug) =>
        IF call.self.service
        THEN ret # None /\ ret[1].tag = "Service"
        ELSE LET home == call.reads.home[1] IN
             IF home # <<>> /\ IsUtf8(home[1])
             THEN ret # None /\ ret[1].tag = "User"
             ELSE ret = None

C4_Witness ==
    /\ Built /\ ~debug /\ call.op = "build"
    /\ ~call.self.service
    /\ call.reads.home[1] = <<>>
    /\ ret = None

\* C5: default() returns what with_env().with_args().with_username().build()
\* returns, and runs the three checks in that order, each later check skipped
\* once an earlier one was positive.
\*
\* First half: a chain of exactly these three calls made one by one on a fresh
\* builder, then build(), ends with the log and the value default() computes
\* from the same builder and the same answers of the platform (an answer the
\* chain never asked for may be anything).
C5_ChainIsDefault ==
    (Built /\ call.op = "build" /\ Kinds = <<"env", "args", "username">>) =>
        \A env \in (IF trace[1].env = <<>> THEN Envs ELSE {trace[1].env[1]}),
           args \in (IF trace[2].args = <<>> THEN Argvs ELSE {trace[2].args[1]}),
           username \in
               (IF trace[3].username = <<>> THEN Usernames ELSE {trace[3].username[1]}),
           cwd \in (IF call.reads.cwd = <<>> THEN CurrentDirs ELSE {call.reads.cwd[1]}),
           home \in (IF call.reads.home = <<>> THEN Homes ELSE {call.reads.home[1]}) :
            LET fresh == SimpleBuilderNew(call.self.qualifier, call.self.organization,
                                          call.self.application)
                d == Default(target, debug, [builder |-> fresh, trace |-> <<>>],
                             env, args, username, cwd, home)
            IN d.trace = trace /\ d.self = call.self /\ d.ret = ret /\ d.reads = call.reads

\* Second half: the log of default() ends with the environment, the arguments
\* and the user name, in this order, and a check ran exactly when nothing
\* before it was positive.
C5_DefaultOrder ==
    (Built /\ call.op = "default") =>
        LET n == Len(trace) IN
        /\ n >= 3
        /\ trace[n - 2].kind = "env"
        /\ trace[n - 1].kind = "args"
        /\ trace[n].kind = "username"
        /\ \A j \in (n - 2)..n :
              (trace[j].calls = 1) <=> (\A i \in 1..(j - 1) : ~trace[i].result)
        /\ call.self.service <=> (\E i \in 1..n : trace[i].result)

C5_DefaultIsChain == C5_ChainIsDefault /\ C5_DefaultOrder

C5_Witness ==
    /\ Built /\ call.op = "default"
    /\ Len(trace) = 3
    /\ trace[1].result
    /\ trace[2].calls = 0 /\ trace[3].calls = 0

\* C6: LocalDirs::new_at(b) never fails and yields b/cache, b/config and
\* b/data for every base path b.
C6_NewAtLayout ==
    (Returned /\ call.op = "LocalDirs::new_at") =>
        /\ ret # None
        /\ IsUnder(target, call.base, ret[1].cache_dir, <<STR_cache>>)
        /\ IsUnder(target, call.base, ret[1].config_dir, <<STR_config>>)
        /\ IsUnder(target, call.base, ret[1].data_dir, <<STR_data>>)

C6_Witness ==
    /\ Returned /\ call.op = "LocalDirs::new_at"
    /\ call.base = <<".", "a">>
    /\ ret # None

\* C7: LocalDirs::new() returns a value exactly when the working directory is
\* readable and UTF-8, and then its directories are cwd/.local/cache,
\* cwd/.local/config and cwd/.local/data.
C7_NewUsesDotLocal ==
    (Returned /\ call.op = "LocalDirs::new") =>
        /\ (ret # None) <=> (call.cwd # <<>> /\ IsUtf8(call.cwd[1]))
        /\ ret # None =>
              /\ IsUnder(target, call.cwd[1], ret[1].cache_dir, <<STR_dot_local, STR_cache>>)
              /\ IsUnder(target, call.cwd[1], ret[1].config_dir, <<STR_dot_local, STR_config>>)
              /\ IsUnder(target, call.cwd[1], ret[1].data_dir, <<STR_dot_local, STR_data>>)

C7_Witness ==
    /\ Returned /\ call.op = "LocalDirs::new"
    /\ call.cwd = << <<"/", "w">> >>
    /\ ret # None

\* C8: ServiceDirs::new(o, a) never fails and yields the templated paths of
\* the compiled family; on Unix /var/cache/<a>, /etc/<a>, /var/lib/<a>,
\* whatever o is.
C8_ServiceTemplates ==
    (Returned /\ call.op = "ServiceDirs::new") =>
        LET o == call.organization
            a == call.application
        IN /\ ret # None
           /\ target = "unix" =>
                 ret[1] = [cache_dir  |-> STR_var_cache \o a,
                           config_dir |-> STR_etc \o a,
                           data_dir   |-> STR_var_lib \o a]
           /\ target = "windows" =>
                 ret[1] = [cache_dir  |-> STR_app_data \o BSLASH \o STR_Local \o BSLASH
                                              \o o \o SLASH \o a \o BSLASH \o STR_cache,
                           config_dir |-> STR_app_data \o BSLASH \o STR_Roaming \o BSLASH
                                              \o o \o SLASH \o a \o BSLASH \o STR_config,
                           data_dir   |-> STR_app_data \o BSLASH \o STR_Roaming \o BSLASH
                                              \o o \o SLASH \o a \o BSLASH \o STR_data]

C8_Witness ==
    /\ Returned /\ call.op = "ServiceDirs::new"
    /\ target = "unix"
    /\ call.organization = <<"a">> /\ call.application = <<>>
    /\ ret # None /\ ret[1].config_dir = STR_etc

\* C9: on Windows ServiceDirs::new(org, app) puts <org>\<app> directly after
\* AppData, and Local / Roaming after them.
C9_WindowsDocLayout ==
    (Returned /\ call.op = "ServiceDirs::new" /\ target = "windows") =>
        LET project == STR_app_data \o BSLASH \o call.organization \o BSLASH
                           \o call.application
        IN ret[1] = [cache_dir  |-> project \o BSLASH \o STR_Local \o BSLASH \o STR_cache,
                     config_dir |-> project \o BSLASH \o STR_Roaming \o BSLASH \o STR_config,
                     data_dir   |-> project \o BSLASH \o STR_Roaming \o BSLASH \o STR_data]

\* C10: the accessors of a UnifiedDirs return the same-named fields of the
\* layout it holds, and those of UnifiedDirs::local_at(p) are the directories
\* of LocalDirs::new_at(p).
C10_UnifiedForwards ==
    (pc = "read" /\ call.type = "UnifiedDirs") =>
        /\ seen[1].cache_dir = ret[1].dirs.cache_dir
        /\ seen[1].config_dir = ret[1].dirs.config_dir
        /\ seen[1].data_dir = ret[1].dirs.data_dir
        /\ call.op = "UnifiedDirs::local_at" =>
              LET l == LocalDirsNewAt(target, call.base) IN
              /\ seen[1].cache_dir = LocalCacheDir(l)
              /\ seen[1].config_dir = LocalConfigDir(l)
              /\ seen[1].data_dir = LocalDataDir(l)

C10_Witness ==
    /\ pc = "read" /\ call.op = "UnifiedDirs::local_at"
    /\ call.base = <<"a">>
    /\ seen # None

\* C11: each constructor of UnifiedDirs wraps the result of its layout in the
\* matching variant and passes a failure on: local() and user(..) are absent
\* exactly when LocalDirs::new() resp. UserDirs::new(..) is, which is when the
\* platform cannot give a UTF-8 working resp. home directory; local_at(..)
\* and service(..) always return a Local resp. Service variant.
C11_ConstructorsWrap ==
    /\ (Returned /\ call.op = "UnifiedDirs::local") =>
          LET l == LocalDirsNew(target, call.cwd) IN
          /\ (ret = None) <=> (l = None)
          /\ (ret = None) <=> (call.cwd = <<>> \/ ~IsUtf8(call.cwd[1]))
          /\ ret # None => ret[1] = [tag |-> "Local", dirs |-> l[1]]
    /\ (Returned /\ call.op = "UnifiedDirs::user") =>
          LET u == UserDirsNew(target, call.home, call.qualifier, call.organization,
                               call.application)
          IN /\ (ret = None) <=> (u = None)
             /\ (ret = None) <=> (call.home = <<>> \/ ~IsUtf8(call.home[1]))
             /\ ret # None => ret[1] = [tag |-> "User", dirs |-> u[1]]
    /\ (Returned /\ call.op = "UnifiedDirs::local_at") =>
          /\ ret # None
          /\ ret[1] = [tag |-> "Local", dirs |-> LocalDirsNewAt(target, call.base)]
    /\ (Returned /\ call.op = "UnifiedDirs::service") =>
          /\ ret # None
          /\ ret[1] = [tag  |-> "Service",
                       dirs |-> ServiceDirsNew(target, call.organization,
                                               call.application)]

C11_Witness ==
    /\ Returned /\ call.op = "UnifiedDirs::user"
    /\ call.home = << <<"/", BadByte>> >>
    /\ ret = None

\* C12: with_env() on a builder whose flag is false sets the flag exactly when
\* the environment holds a variable named SERVICE or DAEMON, whatever its
\* value; no other name does.
C12_Step ==
    (pc = "chain" /\ call'.op = "with_env" /\ ~builder[1].service) =>
        LET e == trace'[Len(trace')] IN
        /\ e.kind = "env" /\ e.env # <<>>
        /\ builder'[1].service <=>
              ("SERVICE" \in DOMAIN e.env[1] \/ "DAEMON" \in DOMAIN e.env[1])

C13_Step ==
    /\ (pc = "idle" /\ pc' = "chain") => ~builder'[1].service
    /\ (pc = "chain" /\ pc' = "chain") =>
          /\ builder[1].service => builder'[1].service
          /\ builder'[1].qualifier = builder[1].qualifier
          /\ builder'[1].organization = builder[1].organization
          /\ builder'[1].application = builder[1].application

C13_FlagMonotonic == [][C13_Step]_vars

\* A closure called after the environment was positive: the flag stays set.
C13_Witness ==
    /\ pc = "chain" /\ call.op = "with"
    /\ Len(trace) = 2
    /\ trace[1].kind = "env" /\ trace[1].result
    /\ trace[2].kind = "closure" /\ ~trace[2].result
    /\ builder[1].service

====
